---------------------------- MODULE Spec2Model ----------------------------
(***************************************************************************)
(* A model of the module-inventory bubble chart:                           *)
(*   - GoogleSheetsReader (parseCSV, parseCSVAsObjects,                    *)
(*     readPublicSpreadsheet),                                             *)
(*   - BubbleChart.setData / reset / render (hierarchy construction),      *)
(*   - the zoom/focus closure of BubbleChart.render.                       *)
(* JavaScript strings are sequences of one-character strings, so that      *)
(* trim, split and the character scanner are computed, not assumed.        *)
(***************************************************************************)
EXTENDS Integers, Sequences, FiniteSets, TLC

VARIABLES
    \* ---- GoogleSheetsReader.parseCSV / parseCSVAsObjects
    table,          \* the table a text was serialised from (round trip input)
    serialized,     \* TRUE when csvText is the serialisation of table
    csvText,        \* the argument csvText
    csvPc,          \* position in parseCSV / parseCSVAsObjects
    lines,          \* const lines = csvText.split('\n')
    lineIdx,        \* position of the for..of loop over lines (1-based)
    i,              \* the character index i of the inner loop (1-based)
    currentField,   \* let currentField
    inQuotes,       \* let inQuotes
    row,            \* const row
    rows,           \* const rows
    objects,        \* the array returned by parseCSVAsObjects
    \* ---- BubbleChart.setData / reset / render
    input,          \* the Table the page loaded
    arg,            \* the argument of the last setData call
    chartData,      \* this.data
    lastCall,       \* the method of BubbleChart called last
    raised,         \* what that call threw ("none" when it returned)
    \* ---- GoogleSheetsReader.readPublicSpreadsheet
    useProxy,       \* this.useProxy
    corsProxies,    \* this.corsProxies
    asObjects,      \* the argument asObjects
    fetchPc,        \* position in readPublicSpreadsheet
    proxyIdx,       \* position of the for..of loop over this.corsProxies
    attempts,       \* the requests made so far, in order
    fetchResult,    \* the value the promise resolved with
    fetchError,     \* the error the promise rejected with
    \* ---- the closure of BubbleChart.render
    focus,          \* let focus
    view,           \* let view
    scene,          \* the transform and r attributes zoomTo wrote
    transitions,    \* the transitions scheduled on the svg element
    nextId,         \* the id the next transition gets
    display,        \* style.display of every label
    fillOpacity,    \* style fill-opacity of every label
    labelTransitions \* the transitions scheduled on the label elements

csvVars == <<table, serialized, csvText, csvPc, lines, lineIdx, i,
             currentField, inQuotes, row, rows, objects>>

treeVars == <<input, arg, chartData, lastCall, raised>>

fetchVars == <<useProxy, corsProxies, asObjects, fetchPc, proxyIdx, attempts,
               fetchResult, fetchError>>

zoomVars == <<focus, view, scene, transitions, nextId,
              display, fillOpacity, labelTransitions>>

vars == <<csvVars, treeVars, fetchVars, zoomVars>>

(***************************************************************************)
(* Bounds of the model.                                                    *)
(***************************************************************************)
MaxTextLen == 5      \* raw texts over ScanAlphabet
MaxSheetLen == 6     \* raw texts over SheetAlphabet (header + data rows)
MaxTableSize == 4    \* characters and separators of a round-trip table
MaxRecords == 3      \* Records of a Table given to setData
MaxProxies == 2      \* entries of this.corsProxies
MaxNodes == 6        \* nodes of the packed hierarchy
MaxClicks == 3       \* activation events of one run
Steps == 2           \* interpolation parameters t = p/Steps a frame can see
ChartWidth == 48     \* this.width

(***************************************************************************)
(* Strings.                                                                *)
(***************************************************************************)
QUOTE == "\""
COMMA == ","
NEWLINE == "\n"

\* The white space String.prototype.trim removes (the part the inputs use).
Whitespace == {" ", "\t", "\r", "\n"}

Seqs(S, n) == UNION {[1..k -> S] : k \in 0..n}

RECURSIVE TrimLeft(_)
TrimLeft(s) ==
    IF s # <<>> /\ Head(s) \in Whitespace THEN TrimLeft(Tail(s)) ELSE s

RECURSIVE TrimRight(_)
TrimRight(s) ==
    IF s # <<>> /\ s[Len(s)] \in Whitespace
    THEN TrimRight(SubSeq(s, 1, Len(s) - 1))
    ELSE s

\* String.prototype.trim
trim(s) == TrimRight(TrimLeft(s))

\* String.prototype.toLowerCase, on the letters the inputs use
toLowerCase(s) ==
    [k \in 1..Len(s) |->
        CASE s[k] = "A" -> "a"
          [] s[k] = "H" -> "h"
          [] OTHER -> s[k]]

\* String.prototype.split(sep) for a one-character separator
RECURSIVE split(_, _)
split(s, sep) ==
    IF \E k \in 1..Len(s) : s[k] = sep
    THEN LET k == CHOOSE k \in 1..Len(s) :
                      s[k] = sep /\ \A j \in 1..(k - 1) : s[j] # sep
         IN  <<SubSeq(s, 1, k - 1)>> \o split(SubSeq(s, k + 1, Len(s)), sep)
    ELSE <<s>>

(***************************************************************************)
(* GoogleSheetsReader.parseCSV: the body of the character loop.            *)
(***************************************************************************)
\* A mutant of ScanChar: a quote always toggles, the escaped quote is lost.
ScanCharNoEscape(line, idx, field, quoted, r) ==
    LET char == line[idx] IN
    IF char = QUOTE
    THEN [i |-> idx + 1, currentField |-> field, inQuotes |-> ~quoted, row |-> r]
    ELSE IF char = COMMA /\ ~quoted
    THEN [i |-> idx + 1, currentField |-> <<>>, inQuotes |-> quoted,
          row |-> Append(r, trim(field))]
    ELSE [i |-> idx + 1, currentField |-> Append(field, char),
          inQuotes |-> quoted, row |-> r]

\* A mutant of ScanChar: a comma ends the field inside quotes too.
ScanCharSplitQuoted(line, idx, field, quoted, r) ==
    LET char == line[idx] IN
    IF char = QUOTE
    THEN IF quoted /\ idx + 1 <= Len(line) /\ line[idx + 1] = QUOTE
         THEN [i |-> idx + 2, currentField |-> Append(field, QUOTE),
               inQuotes |-> quoted, row |-> r]
         ELSE [i |-> idx + 1, currentField |-> field,
               inQuotes |-> ~quoted, row |-> r]
    ELSE IF char = COMMA
    THEN [i |-> idx + 1, currentField |-> <<>>, inQuotes |-> quoted,
          row |-> Append(r, trim(field))]
    ELSE [i |-> idx + 1, currentField |-> Append(field, char),
          inQuotes |-> quoted, row |-> r]

\* One iteration of `for (let i = 0; i < line.length; i++)`, i++ included.
ScanChar(line, idx, field, quoted, r) ==
    LET char == line[idx] IN
    IF char = QUOTE
    THEN IF quoted /\ idx + 1 <= Len(line) /\ line[idx + 1] = QUOTE
         THEN [i |-> idx + 2, currentField |-> Append(field, QUOTE),
               inQuotes |-> quoted, row |-> r]
         ELSE [i |-> idx + 1, currentField |-> field,
               inQuotes |-> ~quoted, row |-> r]
    ELSE IF char = COMMA /\ ~quoted
    THEN [i |-> idx + 1, currentField |-> <<>>, inQuotes |-> quoted,
          row |-> Append(r, trim(field))]
    ELSE [i |-> idx + 1, currentField |-> Append(field, char),
          inQuotes |-> quoted, row |-> r]

\* row.some(cell => cell !== '')
SomeCell(r) == \E k \in 1..Len(r) : r[k] # <<>>

\* A mutant of KeepRow: every parsed row is kept.
KeepRowAlways(r) == TRUE

\* The test guarding rows.push(row)
KeepRow(r) == SomeCell(r)

(***************************************************************************)
(* GoogleSheetsReader.parseCSVAsObjects: the record built from one row.    *)
(***************************************************************************)
\* obj[key] = value
SetKey(obj, key, value) ==
    [k \in (DOMAIN obj) \cup {key} |-> IF k = key THEN value ELSE obj[k]]

\* row[index] || ''
FieldOr(r, index) == IF index <= Len(r) THEN r[index] ELSE <<>>

\* headers.forEach((header, index) => ...), from header index `from` on
RECURSIVE ForEachHeader(_, _, _, _)
ForEachHeader(headers, r, from, obj) ==
    IF from > Len(headers)
    THEN obj
    ELSE ForEachHeader(headers, r, from + 1,
            SetKey(obj, toLowerCase(headers[from]), trim(FieldOr(r, from))))

\* A mutant of RowObject: the header keys keep their case.
RowObjectKeepCase(headers, r) ==
    [k \in {headers[n] : n \in 1..Len(headers)} |->
        LET n == CHOOSE n \in 1..Len(headers) :
                     headers[n] = k /\ \A m \in (n + 1)..Len(headers) : headers[m] # k
        IN  trim(FieldOr(r, n))]

\* The callback of dataRows.map
RowObject(headers, r) == ForEachHeader(headers, r, 1, <<>>)

\* Object.values(obj).some(value => value !== '')
SomeValue(obj) == \E k \in DOMAIN obj : obj[k] # <<>>

\* parseCSVAsObjects after its call of parseCSV has returned `rs`
ObjectsOf(rs) ==
    IF Len(rs) = 0
    THEN <<>>
    ELSE LET headers == [k \in 1..Len(rs[1]) |-> trim(rs[1][k])]
             dataRows == SubSeq(rs, 2, Len(rs))
             mapped == [k \in 1..Len(dataRows) |-> RowObject(headers, dataRows[k])]
         IN  SelectSeq(mapped, SomeValue)

(***************************************************************************)
(* Inputs of the parser.                                                   *)
(***************************************************************************)
ScanAlphabet == {"a", " ", COMMA, QUOTE, NEWLINE}
SheetAlphabet == {"A", " ", COMMA, NEWLINE}

\* The line of the escaped-quotes example: a,"He said ""hi""",c
ExampleLine ==
    <<"a", COMMA, QUOTE, "H", "e", " ", "s", "a", "i", "d", " ",
      QUOTE, QUOTE, "h", "i", QUOTE, QUOTE, QUOTE, COMMA, "c">>

RawTexts ==
    Seqs(ScanAlphabet, MaxTextLen) \cup Seqs(SheetAlphabet, MaxSheetLen)
        \cup {ExampleLine}

\* A table is written as its cells' characters with a cell separator and a
\* row separator between them; the empty table has no rows.
CellSep == "|"
RowSep == "/"
TableSymbols == {"a", " ", COMMA, QUOTE, CellSep, RowSep}

TableOf(src) ==
    LET rs == split(src, RowSep)
    IN  [k \in 1..Len(rs) |-> split(rs[k], CellSep)]

Tables == {<<>>} \cup {TableOf(src) : src \in Seqs(TableSymbols, MaxTableSize)}

\* Standard CSV quoting of one field
RECURSIVE DoubleQuotes(_)
DoubleQuotes(f) ==
    IF f = <<>> THEN <<>>
    ELSE (IF Head(f) = QUOTE THEN <<QUOTE, QUOTE>> ELSE <<Head(f)>>)
             \o DoubleQuotes(Tail(f))

QuoteField(f) ==
    IF \E k \in 1..Len(f) : f[k] \in {COMMA, QUOTE}
    THEN <<QUOTE>> \o DoubleQuotes(f) \o <<QUOTE>>
    ELSE f

RECURSIVE Join(_, _)
Join(ss, sep) ==
    IF ss = <<>> THEN <<>>
    ELSE IF Len(ss) = 1 THEN ss[1]
    ELSE ss[1] \o <<sep>> \o Join(Tail(ss), sep)

ToCSV(t) ==
    Join([k \in 1..Len(t) |->
            Join([c \in 1..Len(t[k]) |-> QuoteField(t[k][c])], COMMA)],
         NEWLINE)

(***************************************************************************)
(* The parser as a state machine.                                          *)
(***************************************************************************)
CsvIdle ==
    /\ csvPc = "idle"
    /\ lines = <<>>
    /\ lineIdx = 1
    /\ i = 1
    /\ currentField = <<>>
    /\ inQuotes = FALSE
    /\ row = <<>>
    /\ rows = <<>>
    /\ objects = <<>>

ParserIdle ==
    /\ serialized = FALSE
    /\ table = <<>>
    /\ csvText = <<>>
    /\ CsvIdle

\* parseCSV is entered: const rows = []; const lines = csvText.split('\n')
ParseCSVBegin ==
    /\ csvPc = "idle"
    /\ csvPc' = "line"
    /\ rows' = <<>>
    /\ lines' = split(csvText, NEWLINE)
    /\ lineIdx' = 1
    /\ UNCHANGED <<table, serialized, csvText, i, currentField, inQuotes, row, objects>>

\* The head of `for (const line of lines)`: the loop ends, a blank line is
\* skipped, or the scan of a line starts.
NextLine ==
    /\ csvPc = "line"
    /\ IF lineIdx > Len(lines)
       THEN /\ csvPc' = "rows"
            /\ UNCHANGED <<lineIdx, i, currentField, inQuotes, row>>
       ELSE IF trim(lines[lineIdx]) = <<>>
       THEN /\ lineIdx' = lineIdx + 1
            /\ UNCHANGED <<csvPc, i, currentField, inQuotes, row>>
       ELSE /\ csvPc' = "char"
            /\ row' = <<>>
            /\ currentField' = <<>>
            /\ inQuotes' = FALSE
            /\ i' = 1
            /\ UNCHANGED lineIdx
    /\ UNCHANGED <<table, serialized, csvText, lines, rows, objects>>

\* One character of the line is scanned.
ScanCharStep ==
    /\ csvPc = "char"
    /\ i <= Len(lines[lineIdx])
    /\ LET n == ScanChar(lines[lineIdx], i, currentField, inQuotes, row)
       IN  /\ i' = n.i
           /\ currentField' = n.currentField
           /\ inQuotes' = n.inQuotes
           /\ row' = n.row
    /\ UNCHANGED <<table, serialized, csvText, csvPc, lines, lineIdx, rows, objects>>

\* The line is exhausted: the last field is pushed and the row is kept or
\* dropped; the locals of the loop body go out of scope.
EndOfLine ==
    /\ csvPc = "char"
    /\ i > Len(lines[lineIdx])
    /\ LET full == Append(row, trim(currentField))
       IN  rows' = IF KeepRow(full) THEN Append(rows, full) ELSE rows
    /\ csvPc' = "line"
    /\ lineIdx' = lineIdx + 1
    /\ i' = 1
    /\ currentField' = <<>>
    /\ inQuotes' = FALSE
    /\ row' = <<>>
    /\ UNCHANGED <<table, serialized, csvText, lines, objects>>

\* parseCSVAsObjects, after this.parseCSV(csvText) has returned rows
MapObjects ==
    /\ csvPc = "rows"
    /\ csvPc' = "objects"
    /\ objects' = ObjectsOf(rows)
    /\ UNCHANGED <<table, serialized, csvText, lines, lineIdx, i, currentField,
                   inQuotes, row, rows>>


(***************************************************************************)
(* BubbleChart.setData                                                     *)
(***************************************************************************)
\* JavaScript values of this.data and of a node's `children` key
Undefined == [undefined |-> TRUE]
Null == [null |-> TRUE]
Arr(items) == [array |-> items]

\* A Map, in insertion order
MapHas(m, key) == \E n \in 1..Len(m) : m[n].key = key
MapGet(m, key) == (CHOOSE e \in {m[n] : n \in 1..Len(m)} : e.key = key).value
MapSet(m, key, value) ==
    IF MapHas(m, key)
    THEN [n \in 1..Len(m) |-> IF m[n].key = key THEN [key |-> key, value |-> value] ELSE m[n]]
    ELSE Append(m, [key |-> key, value |-> value])
MapValues(m) == [n \in 1..Len(m) |-> m[n].value]

\* application && application.trim() !== ''
HasApplication(item) == item.application # <<>> /\ trim(item.application) # <<>>

\* The callback of data.forEach: one Record is put into teamMap.
GroupItem(teamMap, item) ==
    LET tm == IF ~MapHas(teamMap, item.team)
              THEN MapSet(teamMap, item.team,
                       [name |-> item.team, children |-> Arr(<<>>),
                        applications |-> <<>>, modules |-> <<>>])
              ELSE teamMap
        teamData == MapGet(tm, item.team)
        leaf == [name |-> item.module]
        updated ==
            IF HasApplication(item)
            THEN LET apps == IF ~MapHas(teamData.applications, item.application)
                             THEN MapSet(teamData.applications, item.application,
                                      [name |-> item.application, children |-> Arr(<<>>)])
                             ELSE teamData.applications
                     app == MapGet(apps, item.application)
                 IN  [teamData EXCEPT !.applications =
                        MapSet(apps, item.application,
                            [app EXCEPT !.children = Arr(Append(app.children.array, leaf))])]
            ELSE [teamData EXCEPT !.modules = Append(teamData.modules, leaf)]
    IN  MapSet(tm, item.team, updated)

RECURSIVE GroupAll(_, _)
GroupAll(teamMap, data) ==
    IF data = <<>> THEN teamMap
    ELSE GroupAll(GroupItem(teamMap, Head(data)), Tail(data))

\* A mutant of TeamChildren: the standalone modules come first.
TeamChildrenModulesFirst(team) == team.modules \o MapValues(team.applications)

\* const children: the applications, then the standalone modules
TeamChildren(team) == MapValues(team.applications) \o team.modules

\* The callback of Array.from(teamMap.values()).map
TeamNode(team) == [name |-> team.name, children |-> Arr(TeamChildren(team))]

FOLIO == <<"F", "O", "L", "I", "O">>
Dash == <<" ", "-", " ">>

\* A mutant of CollapsedRoot: the team's children are kept as they are.
CollapsedRootKeepTeam(team) ==
    [name |-> team.name \o Dash \o team.children.array[1].name,
     children |-> team.children]

\* The else branch: { name: `${teams[0].name} - ${teams[0].children[0].name}`,
\*                    children: teams[0].children[0].children }
CollapsedRoot(team) ==
    LET first == team.children.array[1]
    IN  [name |-> team.name \o Dash \o first.name,
         children |-> IF "children" \in DOMAIN first THEN first.children ELSE Undefined]

\* setData(data): what it throws and the value of this.data it leaves,
\* given the value `old` this.data had.
SetDataResult(data, old) ==
    LET groups == MapValues(GroupAll(<<>>, data))
        teams == [n \in 1..Len(groups) |-> TeamNode(groups[n])]
    IN  IF Len(teams) > 1
        THEN [raised |-> "none", data |-> [name |-> FOLIO, children |-> Arr(teams)]]
        ELSE IF Len(teams) = 0
        THEN \* teams[0] is undefined: reading teams[0].name throws
             [raised |-> "TypeError", data |-> old]
        ELSE [raised |-> "none", data |-> CollapsedRoot(teams[1])]

(***************************************************************************)
(* The chart object.                                                       *)
(***************************************************************************)
T1 == <<"T", "1">>
T2 == <<"T", "2">>
TeamNames == {T1, T2}
ApplicationNames == {<<>>, <<" ">>, <<"A">>, <<"B">>}
\* setData never inspects a module name: the k-th Record's module is "m<k>".
Digit(k) == <<"0", "1", "2", "3", "4", "5", "6", "7", "8", "9">>[k + 1]
ModuleAt(k) == <<"m", Digit(k)>>
RecordTables ==
    UNION {{[k \in 1..n |-> [module |-> ModuleAt(k),
                             application |-> f[k].application,
                             team |-> f[k].team]] :
               f \in [1..n -> [application : ApplicationNames, team : TeamNames]]} :
           n \in 0..MaxRecords}

\* No chart is in use.
ChartAbsent ==
    /\ input = <<>>
    /\ arg = <<>>
    /\ chartData = Undefined
    /\ lastCall = "constructor"
    /\ raised = "none"

\* new BubbleChart(container, width, height): this.data is not set
ChartNew ==
    /\ arg = <<>>
    /\ chartData = Undefined
    /\ lastCall = "constructor"
    /\ raised = "none"

\* chart.setData(d): the page passes the loaded Table, or the Table a
\* filter matching nothing leaves.
SetData(d) ==
    /\ arg' = d
    /\ lastCall' = "setData"
    /\ LET res == SetDataResult(d, chartData)
       IN  /\ raised' = res.raised
           /\ chartData' = res.data
    /\ UNCHANGED input

\* chart.reset()
Reset ==
    /\ chartData' = Null
    /\ lastCall' = "reset"
    /\ raised' = "none"
    /\ UNCHANGED <<input, arg>>

\* chart.render(), up to its guard: if (!data) throw Error('data is not defined')
RenderGuard ==
    /\ lastCall' = "render"
    /\ raised' = IF chartData \in {Undefined, Null} THEN "Error" ELSE "none"
    /\ UNCHANGED <<input, arg, chartData>>


(***************************************************************************)
(* ModulesList.render: the module names collected from a tree.             *)
(***************************************************************************)
\* Array.isArray(node)
IsArray(node) == "array" \in DOMAIN node

\* function traverse(node): the names pushed, in order
RECURSIVE Traverse(_)
RECURSIVE TraverseEach(_)
TraverseEach(items) ==
    IF items = <<>> THEN <<>>
    ELSE Traverse(Head(items)) \o TraverseEach(Tail(items))
Traverse(node) ==
    IF IsArray(node) THEN TraverseEach(node.array)
    ELSE IF node \in {Undefined, Null} THEN <<>>
    ELSE IF "name" \in DOMAIN node /\ "children" \notin DOMAIN node THEN <<node.name>>
    ELSE IF "children" \in DOMAIN node THEN Traverse(node.children)
    ELSE <<>>

(***************************************************************************)
(* GoogleSheetsReader.readPublicSpreadsheet                                *)
(***************************************************************************)
\* What a request can end in: a response with response.ok, a response
\* without it, or a rejected fetch.
ResponseTexts == {<<>>, <<"A">>, <<"A", NEWLINE, "A">>}
Responses ==
    {[kind |-> "ok", text |-> t] : t \in ResponseTexts}
        \cup {[kind |-> "http", text |-> <<>>], [kind |-> "network", text |-> <<>>]}

\* The error fetchCSVText throws for a failed request
FetchErrorOf(resp) == IF resp.kind = "http" THEN "HTTP error" ELSE "fetch failed"

\* The request for the export URL itself / through proxy k
Direct == [via |-> 0]
ViaProxy(k) == [via |-> k]

FetchAbsent ==
    /\ useProxy = TRUE
    /\ corsProxies = <<>>
    /\ asObjects = FALSE
    /\ fetchPc = "idle"
    /\ proxyIdx = 1
    /\ attempts = <<>>
    /\ fetchResult = <<>>
    /\ fetchError = "none"

csvLocals == <<table, serialized, csvPc, lines, lineIdx, i, currentField,
               inQuotes, row, rows, objects>>

\* readPublicSpreadsheet is entered: the branch on this.useProxy
ReadPublicSpreadsheet ==
    /\ fetchPc = "idle"
    /\ fetchPc' = IF ~useProxy THEN "direct" ELSE "proxies"
    /\ proxyIdx' = 1
    /\ UNCHANGED <<useProxy, corsProxies, asObjects, attempts, fetchResult, fetchError>>
    /\ UNCHANGED csvVars

\* if (!this.useProxy): the export URL is fetched; a failure reaches the
\* outer catch, which rethrows it.
FetchDirect(resp) ==
    /\ fetchPc = "direct"
    /\ attempts' = Append(attempts, Direct)
    /\ IF resp.kind = "ok"
       THEN /\ fetchPc' = "parsing"
            /\ csvText' = resp.text
            /\ UNCHANGED fetchError
       ELSE /\ fetchPc' = "rejected"
            /\ fetchError' = FetchErrorOf(resp)
            /\ UNCHANGED csvText
    /\ UNCHANGED <<useProxy, corsProxies, asObjects, proxyIdx, fetchResult>>
    /\ UNCHANGED csvLocals

\* One iteration of `for (const proxy of this.corsProxies)`: a failure is
\* caught and the loop continues.
FetchProxy(resp) ==
    /\ fetchPc = "proxies"
    /\ proxyIdx <= Len(corsProxies)
    /\ attempts' = Append(attempts, ViaProxy(corsProxies[proxyIdx]))
    /\ IF resp.kind = "ok"
       THEN /\ fetchPc' = "parsing"
            /\ csvText' = resp.text
            /\ UNCHANGED proxyIdx
       ELSE /\ proxyIdx' = proxyIdx + 1
            /\ UNCHANGED <<fetchPc, csvText>>
    /\ UNCHANGED <<useProxy, corsProxies, asObjects, fetchResult, fetchError>>
    /\ UNCHANGED csvLocals

\* The loop is over: throw new Error('All CORS proxies failed. ...')
AllProxiesFailed ==
    /\ fetchPc = "proxies"
    /\ proxyIdx > Len(corsProxies)
    /\ fetchPc' = "rejected"
    /\ fetchError' = "All CORS proxies failed"
    /\ UNCHANGED <<useProxy, corsProxies, asObjects, proxyIdx, attempts, fetchResult>>
    /\ UNCHANGED csvVars

\* asObjects ? this.parseCSVAsObjects(csvText) : this.parseCSV(csvText)
\* is being evaluated: the parser runs on the response text.
Parsing == fetchPc = "parsing"

\* return of the parsed value
ReturnParsed ==
    /\ fetchPc = "parsing"
    /\ csvPc = IF asObjects THEN "objects" ELSE "rows"
    /\ fetchPc' = "resolved"
    /\ fetchResult' = IF asObjects THEN objects ELSE rows
    /\ UNCHANGED <<useProxy, corsProxies, asObjects, proxyIdx, attempts, fetchError>>
    /\ UNCHANGED csvVars

(***************************************************************************)
(* BubbleChart.render: the packed hierarchy and the zoom closure.          *)
(* The layout of d3.pack is a fixed tree: node n has parent n \div 2, the  *)
(* root is centred on the surface.  d3.interpolateZoom is the linear mix   *)
(* on integers: i(0) is the start view and i(1) the target view.           *)
(* k = width / v[2] is kept exact: an attribute is stored as its numerator *)
(* over the denominator v[2].                                              *)
(***************************************************************************)
Root == 1
Nodes == 1..MaxNodes
Parent(n) == n \div 2
HasChildren(n) == 2 * n <= MaxNodes

RECURSIVE Depth(_)
Depth(n) == IF n = Root THEN 0 ELSE 1 + Depth(Parent(n))

X(n) == (ChartWidth \div 2) + 2 * (n - 1)
Y(n) == (ChartWidth \div 2) - (n - 1)
R(n) == ChartWidth \div (2 * (Depth(n) + 1))

\* [focus.x, focus.y, focus.r * 2]
ViewOf(n) == <<X(n), Y(n), R(n) * 2>>

NoView == <<0, 0, 0>>

Mix(a, b, p) == (a * (Steps - p) + b * p) \div Steps

\* i(t) for i = d3.interpolateZoom(from, to) and t = p / Steps
InterpolateZoom(from, to, p) ==
    <<Mix(from[1], to[1], p), Mix(from[2], to[2], p), Mix(from[3], to[3], p)>>

\* The attributes zoomTo(v) writes for every node
SceneOf(v) ==
    [n \in Nodes |-> [tx |-> (X(n) - v[1]) * ChartWidth,
                      ty |-> (Y(n) - v[2]) * ChartWidth,
                      r |-> R(n) * ChartWidth,
                      den |-> v[3]]]

\* A mutant of TweenInit: the tween aims at the root, not at focus.
TweenInitRoot(v, f) == [from |-> v, to |-> ViewOf(Root)]

\* A mutant of TweenInit: the tween starts at the view render() set.
TweenInitFromRoot(v, f) == [from |-> ViewOf(Root), to |-> ViewOf(f)]

\* d3.interpolateZoom(view, [focus.x, focus.y, focus.r * 2])
TweenInit(v, f) == [from |-> v, to |-> ViewOf(f)]

\* A mutant of LabelFilter: only the children of the new focus are taken.
LabelFilterChildrenOnly(d) == {n \in Nodes : Parent(n) = d}

\* label.filter(function(d) { return d.parent === focus
\*                                  || this.style.display === "inline"; })
\* evaluated in zoom, after focus = d
LabelFilter(d) == {n \in Nodes : Parent(n) = d \/ display[n] = "inline"}

\* The transition of id k on the labels
LabelTransitionOf(k) == CHOOSE lt \in labelTransitions : lt.id = k

\* The start of label transition lt: the "start" listener, then the value of
\* the fill-opacity tween, both reading focus as it is now.
DisplayAtStart(lt) ==
    [n \in Nodes |-> IF n \in lt.labels /\ Parent(n) = focus THEN "inline" ELSE display[n]]
OpacityTarget(n) == IF Parent(n) = focus THEN "1" ELSE "0"
StartedLabels(lt) ==
    [lt EXCEPT !.state = "started",
               !.from = [n \in lt.labels |-> fillOpacity[n]],
               !.to = [n \in lt.labels |-> OpacityTarget(n)]]

\* Starting lt interrupts, on its labels, the transitions that are running.
InterruptedBy(lt) ==
    {o \in {IF o.state = "scheduled" THEN o ELSE [o EXCEPT !.labels = @ \ lt.labels] :
                o \in labelTransitions \ {lt}} : o.labels # {}}

\* The fill-opacity a frame at p / Steps writes: nothing when the style is
\* already the target (no tween is made), the interpolated number otherwise.
OpacityAt(lt, n, p) ==
    IF n \notin lt.labels \/ lt.from[n] = lt.to[n] THEN fillOpacity[n]
    ELSE IF p = 0 THEN lt.from[n]
    ELSE IF p = Steps THEN lt.to[n]
    ELSE "partial"

\* The "end" listener, run after the frame with t = 1
DisplayAtEnd(lt) ==
    [n \in Nodes |-> IF n \in lt.labels /\ Parent(n) # focus THEN "none" ELSE display[n]]

\* A frame of label transition lt
LabelTick(lt, p) ==
    /\ fillOpacity' = [n \in Nodes |-> OpacityAt(lt, n, p)]
    /\ display' = IF p = Steps THEN DisplayAtEnd(lt) ELSE display
    /\ labelTransitions' =
          IF p = Steps
          THEN labelTransitions \ {lt}
          ELSE (labelTransitions \ {lt}) \cup {[lt EXCEPT !.state = "running", !.p = p]}

ZoomAbsent ==
    /\ focus = 0
    /\ view = NoView
    /\ scene = <<>>
    /\ transitions = {}
    /\ nextId = 1
    /\ display = <<>>
    /\ fillOpacity = <<>>
    /\ labelTransitions = {}

\* render() has run: let focus = root; zoomTo([focus.x, focus.y, focus.r * 2])
Rendered ==
    /\ focus = Root
    /\ view = ViewOf(Root)
    /\ scene = SceneOf(ViewOf(Root))
    /\ transitions = {}
    /\ nextId = 1
    /\ display = [n \in Nodes |-> IF Parent(n) = Root THEN "inline" ELSE "none"]
    /\ fillOpacity = [n \in Nodes |-> IF Parent(n) = Root THEN "1" ELSE "0"]
    /\ labelTransitions = {}

\* A mutant of Zoom: the handler also moves the stored viewport to d.
ZoomSnap(d, altKey) ==
    /\ focus' = d
    /\ transitions' = transitions \cup
          {[id |-> nextId, state |-> "scheduled",
            duration |-> IF altKey THEN 7500 ELSE 750,
            from |-> NoView, to |-> NoView, p |-> 0]}
    /\ labelTransitions' = labelTransitions \cup
          {[id |-> nextId, state |-> "scheduled", labels |-> LabelFilter(d),
            from |-> <<>>, to |-> <<>>, p |-> 0]}
    /\ nextId' = nextId + 1
    /\ view' = ViewOf(d)
    /\ scene' = SceneOf(ViewOf(d))
    /\ UNCHANGED <<display, fillOpacity>>

\* zoom(event, d): focus = d and a transition is scheduled on the svg
Zoom(d, altKey) ==
    /\ focus' = d
    /\ transitions' = transitions \cup
          {[id |-> nextId, state |-> "scheduled",
            duration |-> IF altKey THEN 7500 ELSE 750,
            from |-> NoView, to |-> NoView, p |-> 0]}
    /\ labelTransitions' = labelTransitions \cup
          {[id |-> nextId, state |-> "scheduled", labels |-> LabelFilter(d),
            from |-> <<>>, to |-> <<>>, p |-> 0]}
    /\ nextId' = nextId + 1
    /\ UNCHANGED <<view, scene, display, fillOpacity>>

\* A click on the circle of node d (a node with children; leaves have
\* pointer-events none).  When d is the focus the listener does nothing and
\* does not stop the event, which then reaches the listener of the svg.
NodeClick(d, altKey) ==
    /\ nextId <= MaxClicks
    /\ d # Root
    /\ HasChildren(d)
    /\ IF focus # d THEN Zoom(d, altKey) ELSE Zoom(Root, altKey)

\* A click on the svg outside every circle: zoom(event, root)
BackgroundClick(altKey) ==
    /\ nextId <= MaxClicks
    /\ Zoom(Root, altKey)

Scheduled == {t \in transitions : t.state = "scheduled"}

\* The timer of transition t fires: the running transition of the element
\* is interrupted, and the tween is initialised from view and focus as they
\* are now.  A start waits while another transition is between its start
\* and its first frame; timers fire in the order the transitions were made.
StartTransition(t) ==
    /\ t \in Scheduled
    /\ \A o \in Scheduled : t.id <= o.id
    /\ \A o \in transitions : o.state # "started"
    /\ LET tween == TweenInit(view, focus)
       IN  transitions' =
              {o \in transitions : o.state = "scheduled" /\ o # t}
                 \cup {[t EXCEPT !.state = "started",
                                 !.from = tween.from, !.to = tween.to]}
    /\ LET lt == LabelTransitionOf(t.id)
       IN  /\ display' = DisplayAtStart(lt)
           /\ labelTransitions' = InterruptedBy(lt) \cup {StartedLabels(lt)}
    /\ UNCHANGED <<focus, view, scene, nextId, fillOpacity>>

\* A frame of transition t: zoomTo(i(t)).  The first frame may come at any
\* elapsed time; the frame with t = 1 is the last and ends the transition.
Frame(t, p) ==
    /\ t \in transitions
    /\ \/ t.state = "started" /\ p \in 0..Steps
       \/ t.state = "running" /\ p \in (t.p + 1)..Steps
    /\ LET v == InterpolateZoom(t.from, t.to, p)
       IN  /\ view' = v
           /\ scene' = SceneOf(v)
    /\ transitions' =
          IF p = Steps
          THEN transitions \ {t}
          ELSE (transitions \ {t}) \cup {[t EXCEPT !.state = "running", !.p = p]}
    /\ LabelTick(LabelTransitionOf(t.id), p)
    /\ UNCHANGED <<focus, nextId>>

\* A frame of a label transition whose svg transition was interrupted: it
\* goes on, on the labels no later transition took.
LabelFrame(lt, p) ==
    /\ lt \in labelTransitions
    /\ \A t \in transitions : t.id # lt.id
    /\ lt.state = "running"
    /\ p \in (lt.p + 1)..Steps
    /\ LabelTick(lt, p)
    /\ UNCHANGED <<focus, view, scene, transitions, nextId>>

(***************************************************************************)
(* Specifications.                                                         *)
(***************************************************************************)
InitCSV ==
    /\ \/ /\ serialized = FALSE
          /\ table = <<>>
          /\ csvText \in RawTexts
       \/ /\ serialized = TRUE
          /\ table \in Tables
          /\ csvText = ToCSV(table)
    /\ CsvIdle
    /\ ChartAbsent
    /\ FetchAbsent
    /\ ZoomAbsent

NextCSV ==
    \/ ParseCSVBegin /\ UNCHANGED <<treeVars, fetchVars, zoomVars>>
    \/ NextLine /\ UNCHANGED <<treeVars, fetchVars, zoomVars>>
    \/ ScanCharStep /\ UNCHANGED <<treeVars, fetchVars, zoomVars>>
    \/ EndOfLine /\ UNCHANGED <<treeVars, fetchVars, zoomVars>>
    \/ MapObjects /\ UNCHANGED <<treeVars, fetchVars, zoomVars>>

SpecCSV == InitCSV /\ [][NextCSV]_vars

InitTree ==
    /\ input \in RecordTables
    /\ ChartNew
    /\ ParserIdle
    /\ FetchAbsent
    /\ ZoomAbsent

NextTree ==
    \/ SetData(input) /\ UNCHANGED <<csvVars, fetchVars, zoomVars>>
    \/ SetData(<<>>) /\ UNCHANGED <<csvVars, fetchVars, zoomVars>>
    \/ Reset /\ UNCHANGED <<csvVars, fetchVars, zoomVars>>
    \/ RenderGuard /\ UNCHANGED <<csvVars, fetchVars, zoomVars>>

SpecTree == InitTree /\ [][NextTree]_vars

InitFetch ==
    /\ useProxy \in BOOLEAN
    /\ corsProxies \in {[k \in 1..n |-> k] : n \in 0..MaxProxies}
    /\ asObjects \in BOOLEAN
    /\ fetchPc = "idle"
    /\ proxyIdx = 1
    /\ attempts = <<>>
    /\ fetchResult = <<>>
    /\ fetchError = "none"
    /\ ParserIdle
    /\ ChartAbsent
    /\ ZoomAbsent

NextFetch ==
    \/ ReadPublicSpreadsheet /\ UNCHANGED <<treeVars, zoomVars>>
    \/ \E resp \in Responses : FetchDirect(resp) /\ UNCHANGED <<treeVars, zoomVars>>
    \/ \E resp \in Responses : FetchProxy(resp) /\ UNCHANGED <<treeVars, zoomVars>>
    \/ AllProxiesFailed /\ UNCHANGED <<treeVars, zoomVars>>
    \/ Parsing /\ ParseCSVBegin /\ UNCHANGED <<fetchVars, treeVars, zoomVars>>
    \/ Parsing /\ NextLine /\ UNCHANGED <<fetchVars, treeVars, zoomVars>>
    \/ Parsing /\ ScanCharStep /\ UNCHANGED <<fetchVars, treeVars, zoomVars>>
    \/ Parsing /\ EndOfLine /\ UNCHANGED <<fetchVars, treeVars, zoomVars>>
    \/ Parsing /\ asObjects /\ MapObjects /\ UNCHANGED <<fetchVars, treeVars, zoomVars>>
    \/ ReturnParsed /\ UNCHANGED <<treeVars, zoomVars>>

SpecFetch == InitFetch /\ [][NextFetch]_vars

InitZoom ==
    /\ Rendered
    /\ ParserIdle
    /\ ChartAbsent
    /\ FetchAbsent

NextZoom ==
    \/ \E d \in Nodes, altKey \in BOOLEAN :
          NodeClick(d, altKey) /\ UNCHANGED <<csvVars, treeVars, fetchVars>>
    \/ \E altKey \in BOOLEAN :
          BackgroundClick(altKey) /\ UNCHANGED <<csvVars, treeVars, fetchVars>>
    \/ \E t \in transitions :
          StartTransition(t) /\ UNCHANGED <<csvVars, treeVars, fetchVars>>
    \/ \E t \in transitions, p \in 0..Steps :
          Frame(t, p) /\ UNCHANGED <<csvVars, treeVars, fetchVars>>
    \/ \E lt \in labelTransitions, p \in 0..Steps :
          LabelFrame(lt, p) /\ UNCHANGED <<csvVars, treeVars, fetchVars>>

SpecZoom == InitZoom /\ [][NextZoom]_vars

(***************************************************************************)
(* Properties of the parser.                                               *)
(***************************************************************************)
TrimTable(t) == [k \in 1..Len(t) |-> [c \in 1..Len(t[k]) |-> trim(t[k][c])]]

ParsedSerialized == serialized /\ csvPc \in {"rows", "objects"}

\* C6 as stated: parsing the standard serialisation of any table returns
\* the same rows in the same order, every field trimmed.
C6_RoundTripAllRows == ParsedSerialized => rows = TrimTable(table)

\* C6 (amended): parsing the standard serialisation of a table returns, in
\* order, the rows that have at least one field that is non-empty after
\* trimming, every field trimmed; rows whose fields all trim to the empty
\* string are dropped.
C6_RoundTrip == ParsedSerialized => rows = SelectSeq(TrimTable(table), SomeCell)

C6_Witness ==
    /\ ParsedSerialized
    /\ Len(table) = 2
    /\ rows = table
    /\ \E k \in 1..2 : \E c \in 1..Len(table[k]) : table[k][c] = <<QUOTE>>
    /\ \E k \in 1..2 : \E c \in 1..Len(table[k]) : table[k][c] = <<COMMA>>

ExampleFields ==
    << <<"a">>,
       <<"H", "e", " ", "s", "a", "i", "d", " ", QUOTE, "h", "i", QUOTE>>,
       <<"c">> >>

AtQuoteInQuotes ==
    /\ csvPc = "char"
    /\ i <= Len(lines[lineIdx])
    /\ inQuotes
    /\ lines[lineIdx][i] = QUOTE

\* C7: in quoted mode a quote followed by a quote appends one literal quote,
\* consumes both characters and stays in quoted mode; a quote not followed
\* by a quote leaves quoted mode and appends nothing; and the example line
\* a,"He said ""hi""",c parses to the fields a / He said "hi" / c.
C7_EscapedQuote ==
    /\ [][AtQuoteInQuotes =>
            IF i + 1 <= Len(lines[lineIdx]) /\ lines[lineIdx][i + 1] = QUOTE
            THEN /\ currentField' = Append(currentField, QUOTE)
                 /\ i' = i + 2
                 /\ inQuotes' = TRUE
                 /\ row' = row
            ELSE /\ currentField' = currentField
                 /\ i' = i + 1
                 /\ inQuotes' = FALSE
                 /\ row' = row]_vars
    /\ []((csvText = ExampleLine /\ csvPc = "rows") => rows = <<ExampleFields>>)

C7_Witness ==
    /\ csvText = ExampleLine
    /\ csvPc = "char"
    /\ inQuotes
    /\ currentField = <<"H", "e", " ", "s", "a", "i", "d", " ", QUOTE, "h", "i", QUOTE>>

\* The number of quote characters before position k decides quoted mode.
InQuoted(l, k) == Cardinality({j \in 1..(k - 1) : l[j] = QUOTE}) % 2 = 1

\* A line has content when some character of it survives into a field:
\* a character that is no white space, quote or comma, a comma inside
\* quotes, or an escaped quote.
HasContent(l) ==
    \E k \in 1..Len(l) :
        \/ l[k] \notin Whitespace \cup {QUOTE, COMMA}
        \/ l[k] = COMMA /\ InQuoted(l, k)
        \/ l[k] = QUOTE /\ InQuoted(l, k) /\ k + 1 <= Len(l) /\ l[k + 1] = QUOTE

FieldCount(l) == 1 + Cardinality({k \in 1..Len(l) : l[k] = COMMA /\ ~InQuoted(l, k)})

\* C8: every returned Row has a non-empty field; lines of white space and
\* lines whose fields all trim to the empty string emit nothing, and every
\* other line emits exactly one Row, in input order.
C8_BlankRowSkip ==
    csvPc \in {"rows", "objects"} =>
        LET emitting == SelectSeq(lines, HasContent)
        IN  /\ Len(rows) = Len(emitting)
            /\ \A k \in 1..Len(rows) :
                  /\ SomeCell(rows[k])
                  /\ Len(rows[k]) = FieldCount(emitting[k])

C8_Witness ==
    /\ csvPc = "rows"
    /\ lines = << <<" ">>, <<COMMA>>, <<"a">> >>
    /\ rows = << <<<<"a">>>> >>

HeaderKeys(h) == {toLowerCase(trim(h[n])) : n \in 1..Len(h)}

\* C9 as stated: every Record has the normalised headers as keys, and for
\* each header index its value is the trimmed field of that index.
C9_FieldPerHeaderIndex ==
    csvPc = "objects" =>
        /\ rows = <<>> => objects = <<>>
        /\ \A j \in 1..Len(objects) :
              /\ DOMAIN objects[j] = HeaderKeys(rows[1])
              /\ \E m \in 2..Len(rows) :
                    \A n \in 1..Len(rows[1]) :
                        objects[j][toLowerCase(trim(rows[1][n]))]
                            = trim(FieldOr(rows[m], n))

\* The Record of data row r under header row h: each key holds the field of
\* the last header index that normalises to it.
RecordOf(h, r) ==
    [k \in HeaderKeys(h) |->
        LET n == CHOOSE n \in 1..Len(h) :
                     /\ toLowerCase(trim(h[n])) = k
                     /\ \A m \in (n + 1)..Len(h) : toLowerCase(trim(h[m])) # k
        IN  trim(FieldOr(r, n))]

\* C9 (amended): every Record has as keys exactly the trimmed, lower-cased
\* fields of the first Row; the value of a key is the trimmed field at the
\* last header index that normalises to that key, or the empty string when
\* the Row is shorter; fields beyond the header never appear; the Records
\* are those of the data Rows in order, without the Records whose values
\* are all empty; an empty row list yields an empty Table.
C9_Records ==
    csvPc = "objects" =>
        /\ rows = <<>> => objects = <<>>
        /\ rows # <<>> =>
              objects = SelectSeq([m \in 1..(Len(rows) - 1) |->
                                      RecordOf(rows[1], rows[m + 1])], SomeValue)

C9_Witness ==
    /\ csvPc = "objects"
    /\ rows = << <<<<"A">>, <<"A">>>>, <<<<>>, <<"A">>>> >>
    /\ Len(objects) = 1
    /\ objects[1][<<"a">>] = <<"A">>


(***************************************************************************)
(* Properties of setData.                                                  *)
(***************************************************************************)
Blank(r) == trim(r.application) = <<>>
Leaf(r) == [name |-> r.module]
TeamsOf(d) == {d[k].team : k \in 1..Len(d)}

\* The distinct elements of a sequence, in first-seen order
RECURSIVE FirstSeen(_)
FirstSeen(s) ==
    IF s = <<>> THEN <<>>
    ELSE LET front == FirstSeen(SubSeq(s, 1, Len(s) - 1))
             last == s[Len(s)]
         IN  IF \E k \in 1..Len(front) : front[k] = last
             THEN front
             ELSE Append(front, last)

Returned == lastCall = "setData" /\ raised = "none"

\* All Records are of one team and that team has one top-level child: one
\* application shared by every Record, or a single standalone module.
OneApplication(d) ==
    /\ d # <<>>
    /\ \A k \in 1..Len(d) :
          /\ d[k].team = d[1].team
          /\ ~Blank(d[k])
          /\ d[k].application = d[1].application
OneModule(d) == Len(d) = 1 /\ Blank(d[1])

\* C3: for a single-team table whose team has exactly one top-level child,
\* setData stores a root named "<team> - <child name>" whose children are
\* that child's own children (none, when the child is a module).
C3_Collapse ==
    /\ (lastCall = "setData" /\ OneApplication(arg)) =>
          /\ raised = "none"
          /\ chartData =
                [name |-> arg[1].team \o <<" ", "-", " ">> \o arg[1].application,
                 children |-> Arr([k \in 1..Len(arg) |-> Leaf(arg[k])])]
    /\ (lastCall = "setData" /\ OneModule(arg)) =>
          /\ raised = "none"
          /\ chartData.name = arg[1].team \o <<" ", "-", " ">> \o arg[1].module
          /\ chartData.children = Undefined

C3_Witness ==
    /\ Returned
    /\ Len(arg) = 3
    /\ OneApplication(arg)
    /\ Len(chartData.children.array) = 3

\* C4: setData([]) ends in the EmptyDataset failure and leaves no tree in
\* this.data.
C4_EmptyDataset ==
    (lastCall = "setData" /\ arg = <<>>) =>
        /\ raised = "EmptyDataset"
        /\ chartData \in {Undefined, Null}

\* The node of team t expected from table d
ExpectedTeam(d, t) ==
    LET recs == SelectSeq(d, LAMBDA r : r.team = t)
        grouped == SelectSeq(recs, LAMBDA r : ~Blank(r))
        apps == FirstSeen([k \in 1..Len(grouped) |-> grouped[k].application])
        AppNode(a) ==
            LET members == SelectSeq(grouped, LAMBDA r : r.application = a)
            IN  [name |-> a,
                 children |-> Arr([k \in 1..Len(members) |-> Leaf(members[k])])]
        standalone == SelectSeq(recs, Blank)
    IN  [name |-> t,
         children |-> Arr([k \in 1..Len(apps) |-> AppNode(apps[k])]
                          \o [k \in 1..Len(standalone) |-> Leaf(standalone[k])])]

\* C5: with at least two teams, the root's children are the team nodes in
\* first-seen order; a team's children are its application nodes in
\* first-seen order, each with one leaf per Record in Record order, followed
\* by one leaf per Record with a blank application, in Record order.
C5_Grouping ==
    (lastCall = "setData" /\ Cardinality(TeamsOf(arg)) >= 2) =>
        /\ raised = "none"
        /\ LET teams == FirstSeen([k \in 1..Len(arg) |-> arg[k].team])
           IN  chartData =
                  [name |-> <<"F", "O", "L", "I", "O">>,
                   children |-> Arr([k \in 1..Len(teams) |-> ExpectedTeam(arg, teams[k])])]

C5_Witness ==
    /\ Returned
    /\ Len(arg) = 3
    /\ arg[1].team = T2 /\ Blank(arg[1])
    /\ arg[2].team = T2 /\ arg[2].application = <<"A">>
    /\ arg[3].team = T1
    /\ chartData.children.array[1].name = T2
    /\ chartData.children.array[1].children.array =
          << [name |-> <<"A">>, children |-> Arr(<<[name |-> ModuleAt(2)]>>)],
             [name |-> ModuleAt(1)] >>


\* Every node of a tree: the node and the nodes under its children array
RECURSIVE NodesOf(_)
NodesOf(node) ==
    {node} \cup
    (IF "children" \in DOMAIN node /\ IsArray(node.children)
     THEN UNION {NodesOf(node.children.array[k]) : k \in 1..Len(node.children.array)}
     ELSE {})

\* The test of ModulesList.render, and the leaf test of d3.hierarchy
InternalByKey(node) == "children" \in DOMAIN node
InternalByValue(node) ==
    /\ "children" \in DOMAIN node
    /\ IsArray(node.children)
    /\ node.children.array # <<>>

\* C11: in the tree setData stores for a non-empty table, a node either has
\* no children key or has a non-empty array under it, so the key test and
\* the value test classify every node alike.
C11_ChildrenKey ==
    (Returned /\ arg # <<>>) =>
        \A node \in NodesOf(chartData) : InternalByKey(node) <=> InternalByValue(node)

\* C15: for a non-empty table the leaves of the stored tree are the Records'
\* modules, one leaf per Record.
C15_ModuleConservation ==
    (Returned /\ arg # <<>>) =>
        LET names == Traverse(chartData)
        IN  /\ Len(names) = Len(arg)
            /\ \A k \in 1..Len(arg) : \E n \in 1..Len(names) : names[n] = arg[k].module

(***************************************************************************)
(* Properties of the zoom closure.                                         *)
(***************************************************************************)
\* The transition of the last activation event has run its final frame (or
\* there was no activation yet).
LastTransitionEnded == \A t \in transitions : t.id # nextId - 1

\* C1: once the transition of the last activation event has run its final
\* frame, one node is focused, the stored viewport is
\* [focus.x, focus.y, 2 * focus.r], and the transform puts the focused
\* node's centre at (0,0) and its radius at width / 2.
C1_FocusInvariant ==
    /\ focus \in Nodes
    /\ LastTransitionEnded =>
          /\ transitions = {}
          /\ view = ViewOf(focus)
          /\ scene = SceneOf(view)
          /\ scene[focus].tx = 0
          /\ scene[focus].ty = 0
          /\ 2 * scene[focus].r = ChartWidth * scene[focus].den

C1_Witness ==
    /\ LastTransitionEnded
    /\ nextId > 2
    /\ focus # Root
    /\ view = ViewOf(focus)

\* An activation event on the node that is focused: a click on its circle,
\* or a click on the background while the root is focused.
ActivateFocused ==
    \/ \E altKey \in BOOLEAN : NodeClick(focus, altKey)
    \/ focus = Root /\ \E altKey \in BOOLEAN : BackgroundClick(altKey)

\* C2: an activation event on the focused node changes neither the focused
\* node nor the viewport and starts no transition.
C2_FocusedIsNoOp ==
    [][ActivateFocused => UNCHANGED <<focus, view, transitions>>]_vars

\* No transition is scheduled or running, on the svg or on a label.
NoTransitionInFlight == transitions = {} /\ labelTransitions = {}

\* The label of n is displayed: display inline, fill-opacity 1
Shown(n) == display[n] = "inline" /\ fillOpacity[n] = "1"
Hidden(n) == display[n] = "none" /\ fillOpacity[n] = "0"

\* C12: initially and whenever no transition is in flight, the label of a
\* node is displayed if its parent is the focused node and hidden otherwise,
\* whatever the order in which activations, starts and frames came.
C12_LabelVisibility ==
    NoTransitionInFlight =>
        \A n \in Nodes : IF Parent(n) = focus THEN Shown(n) ELSE Hidden(n)

\* Three activations were made and every transition has ended, with a node
\* under the root focused: its children are shown, the root's are hidden.
C12_Witness ==
    /\ NoTransitionInFlight
    /\ nextId > 3
    /\ focus # Root
    /\ \A n \in Nodes : Parent(n) = Root => Hidden(n)
    /\ \E n \in Nodes : Parent(n) = focus /\ Shown(n)

\* The transitions of the svg past their start
InFlight == {t \in transitions : t.state # "scheduled"}

\* C13: when a transition starts while another is in flight, the one in
\* flight is dropped (it has no frame afterwards: the started one is the only
\* one in flight), and the started one interpolates from the viewport the
\* last frame of the dropped one wrote.
C13_Supersession ==
    [][\A t \in transitions' \ transitions : t.state = "started" =>
          /\ \A o \in InFlight :
                /\ t.from = InterpolateZoom(o.from, o.to, o.p)
                /\ t.from = view
                /\ \A u \in transitions' : u.id # o.id
          /\ \A u \in transitions' : u.state # "scheduled" => u = t]_vars

\* A transition has started from a viewport that is between two nodes'
\* viewports: the one it superseded was half way.
C13_Witness ==
    \E t \in transitions :
        /\ t.state = "started"
        /\ t.id > 1
        /\ t.from = view
        /\ \A n \in Nodes : t.from # ViewOf(n)

\* C14 as stated: a frame of a transition changes neither the focused node
\* nor the stored viewport.
C14_FocusStateByHandlerOnly ==
    [][(\E t \in transitions, p \in 0..Steps : Frame(t, p)) => UNCHANGED <<focus, view>>]_vars

\* C14: the focused node is changed by the activation handler only, which
\* leaves the stored viewport alone; the stored viewport is changed by frames
\* only, to the value interpolated between the parameters fixed when the
\* transition started; no step changes those parameters or lets a frame
\* change the focused node.
C14_FrameEffect ==
    [][/\ focus' # focus => nextId' = nextId + 1
       /\ nextId' # nextId => view' = view
       /\ view' # view =>
             /\ focus' = focus
             /\ \E t \in InFlight, p \in 0..Steps : view' = InterpolateZoom(t.from, t.to, p)
       /\ \A t \in InFlight, u \in transitions' :
             u.id = t.id => u.from = t.from /\ u.to = t.to]_vars

\* A frame has written a viewport half way to a node that is not the root.
C14_Witness ==
    /\ focus # Root
    /\ \E t \in transitions :
          /\ t.state = "running"
          /\ t.p \in 1..(Steps - 1)
          /\ t.to = ViewOf(focus)
          /\ view = InterpolateZoom(t.from, t.to, t.p)
          /\ view # t.from

(***************************************************************************)
(* Properties of readPublicSpreadsheet.                                    *)
(***************************************************************************)
\* C10: the export URL is requested first, then the proxies in list order;
\* the promise rejects only after the direct request and every proxy have
\* failed.
C10_DirectThenProxies ==
    /\ attempts # <<>> => attempts[1] = Direct
    /\ \A k \in 2..Len(attempts) : attempts[k] = ViaProxy(corsProxies[k - 1])
    /\ fetchPc = "rejected" => Len(attempts) = 1 + Len(corsProxies)

=============================================================================
